---- MODULE Spec2Model ----
(***************************************************************************)
(* Model of installer/build-server.py, the daily build server script.      *)
(*                                                                         *)
(* The script is one sequential run: startup argument handling, the        *)
(* project loop (git fetch dry-run, git pull, build folder reset, cmake,   *)
(* make, make install), the packaging gate, the Linux AppImage packaging,  *)
(* the top-level except handler and the final report.                      *)
(*                                                                         *)
(* An output line of an external command is a sequence of text fragments;  *)
(* the substring test  sig in line  of the script is Contains(sig, line).  *)
(* run_command returns a lazy iterator over the child's stdout, so a line  *)
(* is drawn from the command's possible lines at the moment it is read.    *)
(* Results of file-system calls (os.path.exists, os.listdir) and failures  *)
(* of file-system, upload and Slack calls are inputs of the environment,   *)
(* drawn when the call is made.                                            *)
(*                                                                         *)
(* output_lines (appended by output(), never read by the script) and the   *)
(* loop variable line (not read after its loop body) are not state: the    *)
(* line read is the input of the read step, and nread counts the reads.    *)
(***************************************************************************)
EXTENDS Integers, Sequences, FiniteSets, TLC

\* ------------------------------------------------------------------ bounds
\* most lines one external command prints
MaxLines == 2
\* most lines with an error signature the external commands print in a run
MaxErrors == 2
\* most entries os.listdir finds in the build folder after the freeze
MaxDirs == 2

\* ------------------------------------------------------- static configuration
Platforms == {"Linux", "Darwin", "Windows"}

\* project_paths: (project_path, cmake_args, git_origin), the same three
\* projects on every platform
project_paths ==
    << [path |-> "libopenshot-audio-git", cmake_args |-> "../",
        git_origin |-> "libopenshot-audio.git"],
       [path |-> "libopenshot-git", cmake_args |-> "../",
        git_origin |-> "libopenshot.git"],
       [path |-> "openshot-qt-git", cmake_args |-> "",
        git_origin |-> "openshot-qt.git"] >>

NumProjects == Len(project_paths)
Projects == 1..NumProjects

\* project_paths[2][0]: the project the installers are made from
QtProject == 3

\* ------------------------------------------------------------ output lines
\* sig in line
Contains(sig, ln) == \E i \in 1..Len(ln) : ln[i] = sig

UpToDateMarker == "[up to date]"
SuccessMarker == "completed sucessfully"

\* the lines each external command can print
FetchLines == { <<"[up to date]">>, <<"POST git-upload-pack">>,
                <<"fatal: not a git repository">> }
PullLines == { <<"Already up-to-date.">> }
CmakeLines == { <<"-- Configuring done">>, <<"CMake Error", "bad path">>,
                <<"Configuring incomplete">>,
                <<"CMake Error", "Configuring incomplete">> }
MakeLines == { <<"[100%] Built target">>, <<"file.cpp", ": error:">>,
               <<"No targets specified">> }
InstallLines == { <<"-- Installing">>, <<"[install] Error">>, <<"CMake Error">> }
FreezeLines == { <<"copying">>, <<"logger:ERROR">>,
                 <<"logger:ERROR", "importlib/__init__.pyc">>,
                 <<"logger:ERROR", "zinfo">> }
AppImageLines == { <<"Generating squashfs">>, <<"error">>,
                   <<"completed sucessfully">>, <<"completed successfully">> }

LinesOf(cmd) ==
    CASE cmd = "fetch" -> FetchLines
      [] cmd = "pull" -> PullLines
      [] cmd = "cmake" -> CmakeLines
      [] cmd = "make" -> MakeLines
      [] cmd = "install" -> InstallLines
      [] cmd = "freeze" -> FreezeLines
      [] cmd = "appimage" -> AppImageLines

AllLines == FetchLines \cup PullLines \cup CmakeLines \cup MakeLines
            \cup InstallLines \cup FreezeLines \cup AppImageLines

\* "[up to date]" in line
IsUpToDate(ln) == Contains(UpToDateMarker, ln)

\* the error tests of the configure, compile, install, freeze and image
\* assembly loops
IsCmakeError(ln) == Contains("CMake Error", ln) \/ Contains("Configuring incomplete", ln)
IsMakeError(ln) == Contains(": error:", ln) \/ Contains("No targets specified", ln)
IsInstallError(ln) == Contains("[install] Error", ln) \/ Contains("CMake Error", ln)
IsFreezeError(ln) ==
    /\ Contains("logger:ERROR", ln)
    /\ ~Contains("importlib/__init__.pyc", ln)
    /\ ~Contains("zinfo", ln)
IsAppImageError(ln) == Contains("error", ln)
IsAppImageSuccess(ln) == Contains(SuccessMarker, ln)

IsError(cmd, ln) ==
    CASE cmd = "cmake" -> IsCmakeError(ln)
      [] cmd = "make" -> IsMakeError(ln)
      [] cmd = "install" -> IsInstallError(ln)
      [] cmd = "freeze" -> IsFreezeError(ln)
      [] cmd = "appimage" -> IsAppImageError(ln)
      [] OTHER -> FALSE

\* the text before "%s" in each error(...) call
ErrorPrefix(cmd) ==
    CASE cmd = "cmake" -> "Cmake Error"
      [] cmd = "make" -> "Make Error"
      [] cmd = "install" -> "Make Install Error"
      [] cmd = "freeze" -> "Freeze Error"
      [] cmd = "appimage" -> "AppImageKit Error"

\* the string handed to error(): a prefix and the formatted argument
ErrorText(prefix, arg) == [prefix |-> prefix, arg |-> arg]

VARIABLES
    platform,         \* platform.system()
    slack_object,     \* TRUE when a Slacker was made from argv[1]
    s3_connection,    \* TRUE when a tinys3 connection was made from argv[2..3]
    pc,               \* position in the script
    proj,             \* index of the project the loop is at
    needs_update,
    needs_build,
    nread,            \* lines read from the running command, 0 when none runs
    errors_detected,
    build,            \* the build folder of each project: "unknown", "fresh",
                      \* "removed", "absent" or "frozen"
    exe_dirs,         \* len(exe_dirs), -1 before os.listdir
    app_image_success,
    sync,             \* history: outcome of each project's fetch check
    invoked,          \* history: commands started, in order
    drained,          \* history: commands read to the end of their output
    origins,          \* history: the lines read that had an error signature
    markers,          \* history: commands that printed their marker line
    gate,             \* history: len(errors_detected) at the gate, entered?
    artifact,         \* history: what os.path.exists(app_image_path) found
    packSteps,        \* history: packaging steps carried out
    uploads,          \* history: calls of upload() and their outcome
    slacks,           \* history: calls of slack() and their outcome
    reports,          \* history: final reports emitted
    raised            \* history: position the except handler was entered from

vars == << platform, slack_object, s3_connection, pc, proj, needs_update,
           needs_build, nread, errors_detected, build, exe_dirs,
           app_image_success, sync, invoked, drained, origins, markers, gate,
           artifact,
           packSteps, uploads, slacks, reports, raised >>

env == << platform, slack_object, s3_connection >>
pack == << exe_dirs, app_image_success, gate, artifact, packSteps >>
outs == << uploads, slacks, reports >>
hist == << origins, markers >>

\* an error() that keeps only the latest record
errorLatest(errs, text) == << text >>

\* error(line): errors_detected.append(line)
error(errs, text) == Append(errs, text)

Init ==
    /\ platform \in Platforms
    /\ slack_object = FALSE
    /\ s3_connection = FALSE
    /\ pc = "start"
    /\ proj = 0
    /\ needs_update = FALSE
    /\ needs_build = FALSE
    /\ nread = 0
    /\ errors_detected = << >>
    /\ build = [p \in Projects |-> "unknown"]
    /\ exe_dirs = -1
    /\ app_image_success = FALSE
    /\ sync = [p \in Projects |-> "Unchecked"]
    /\ invoked = << >>
    /\ drained = {}
    /\ origins = << >>
    /\ markers = {}
    /\ gate = [reached |-> FALSE, errors |-> 0, entered |-> FALSE]
    /\ artifact = "unchecked"
    /\ packSteps = << >>
    /\ uploads = << >>
    /\ slacks = << >>
    /\ reports = << >>
    /\ raised = "no"

\* run_command(command): the command is started and nothing is read yet
Run(p, cmd) ==
    /\ invoked' = Append(invoked, << p, cmd >>)
    /\ nread' = 0

\* a loop that takes the second project first
LoopToSwapped(p) ==
    IF p = 1 THEN pc' = "chdir" /\ proj' = 2
    ELSE IF p = 3 THEN pc' = "chdir" /\ proj' = 1
    ELSE IF p = 2 THEN pc' = "chdir" /\ proj' = 3
    ELSE pc' = "gate" /\ proj' = proj

\* the for statement of the project loop: the next project, or the gate
\* when project_paths is exhausted
LoopTo(p) ==
    IF p <= NumProjects
    THEN pc' = "chdir" /\ proj' = p
    ELSE pc' = "gate" /\ proj' = proj

\* a handler that records the exception and goes on with the packaging
\* gate
ExceptContinue ==
    /\ errors_detected' = error(errors_detected, ErrorText("Unhandled exception", << "traceback" >>))
    /\ raised' = pc
    /\ pc' = "gate"

\* a script without the top-level handler: the exception ends it
ExceptUncaught ==
    /\ errors_detected' = errors_detected
    /\ raised' = pc
    /\ pc' = "done"

\* except Exception as ex: error("Unhandled exception: ...")
Except ==
    /\ errors_detected' = error(errors_detected, ErrorText("Unhandled exception", <<"traceback">>))
    /\ raised' = pc
    /\ pc' = "report"

\* the lines a command may print next: at most MaxLines a command, at most
\* MaxErrors lines with an error signature a run
MayPrint(cmd, ln) ==
    /\ ln \in LinesOf(cmd)
    /\ nread < MaxLines
    /\ IsError(cmd, ln) => Len(errors_detected) < MaxErrors

\* sys.argv handling, then the project loop starts
Startup ==
    /\ pc = "start"
    /\ \E argc \in 1..4 :
        /\ slack_object' = (argc >= 2)
        /\ s3_connection' = (argc >= 4)
    /\ LoopTo(1)
    /\ UNCHANGED << platform, needs_update, needs_build, nread,
                    errors_detected, build, sync, invoked, drained, raised >>
    /\ UNCHANGED pack
    /\ UNCHANGED outs
    /\ UNCHANGED hist

\* os.chdir(project_path); needs_update = True; git fetch is started
Chdir ==
    /\ pc = "chdir"
    /\ \/ /\ needs_update' = TRUE
          /\ Run(proj, "fetch")
          /\ pc' = "fetch"
          /\ UNCHANGED << errors_detected, raised >>
       \/ /\ Except
          /\ UNCHANGED << needs_update, invoked, nread >>
    /\ UNCHANGED << proj, needs_build, build, sync, drained >>
    /\ UNCHANGED env
    /\ UNCHANGED hist
    /\ UNCHANGED pack
    /\ UNCHANGED outs

\* the marker a command's output is searched for
IsMarker(cmd, ln) ==
    \/ cmd = "fetch" /\ Contains(UpToDateMarker, ln)
    \/ cmd = "appimage" /\ Contains(SuccessMarker, ln)

\* for line in run_command(...): output(line)
ReadLine(cmd, ln) ==
    /\ MayPrint(cmd, ln)
    /\ origins' = IF IsError(cmd, ln)
                  THEN Append(origins, [proj |-> proj, cmd |-> cmd, line |-> ln])
                  ELSE origins
    /\ markers' = IF IsMarker(cmd, ln) THEN markers \cup { << proj, cmd >> }
                  ELSE markers

\* SyncStatus: the value of needs_update when the fetch loop is left
SyncStatus(nu) == IF nu THEN "UpdateAvailable" ELSE "UpToDate"

\* a fetch loop that breaks at the marker without clearing needs_update
NeedsUpdateKept(nu, ln) == nu

\* needs_update after one line of the fetch output
NeedsUpdateAfter(nu, ln) == IF IsUpToDate(ln) THEN FALSE ELSE nu

\* a project loop that pulls and builds whatever the fetch check found
AfterFetchAlways(nu) ==
    /\ needs_build' = TRUE
    /\ Run(proj, "pull")
    /\ pc' = "pull"
    /\ proj' = proj

\* if needs_update: needs_build = True and git pull is started; otherwise
\* the loop goes to the next project
AfterFetch(nu) ==
    IF nu
    THEN /\ needs_build' = TRUE
         /\ Run(proj, "pull")
         /\ pc' = "pull"
         /\ proj' = proj
    ELSE /\ LoopTo(proj + 1)
         /\ nread' = 0
         /\ UNCHANGED << needs_build, invoked >>

\* one line of git fetch -v --dry-run; break at the marker
FetchRead ==
    /\ pc = "fetch"
    /\ \E ln \in AllLines :
        /\ ReadLine("fetch", ln)
        /\ needs_update' = NeedsUpdateAfter(needs_update, ln)
        /\ IF IsUpToDate(ln)
           THEN /\ sync' = [sync EXCEPT ![proj] = SyncStatus(needs_update')]
                /\ AfterFetch(needs_update')
           ELSE /\ nread' = nread + 1
                /\ UNCHANGED << pc, proj, needs_build, sync, invoked >>
    /\ UNCHANGED << errors_detected, build, drained, raised >>
    /\ UNCHANGED env
    /\ UNCHANGED pack
    /\ UNCHANGED outs

\* the fetch output ends without a break
FetchEnd ==
    /\ pc = "fetch"
    /\ drained' = drained \cup { << proj, "fetch" >> }
    /\ sync' = [sync EXCEPT ![proj] = SyncStatus(needs_update)]
    /\ AfterFetch(needs_update)
    /\ UNCHANGED << needs_update, errors_detected, build, raised >>
    /\ UNCHANGED env
    /\ UNCHANGED hist
    /\ UNCHANGED pack
    /\ UNCHANGED outs

\* one line of git pull
PullRead ==
    /\ pc = "pull"
    /\ \E ln \in AllLines :
        /\ ReadLine("pull", ln)
        /\ nread' = nread + 1
    /\ UNCHANGED << pc, proj, needs_update, needs_build, errors_detected,
                    build, sync, invoked, drained, raised >>
    /\ UNCHANGED env
    /\ UNCHANGED pack
    /\ UNCHANGED outs

PullEnd ==
    /\ pc = "pull"
    /\ drained' = drained \cup { << proj, "pull" >> }
    /\ pc' = "reset"
    /\ nread' = 0
    /\ UNCHANGED << proj, needs_update, needs_build,
                    errors_detected, build, sync, invoked, raised >>
    /\ UNCHANGED env
    /\ UNCHANGED hist
    /\ UNCHANGED pack
    /\ UNCHANGED outs

\* a reset that makes the build folder only when there is none
ResetFolderKept(b, existed) == IF existed THEN b ELSE "fresh"

\* the build folder after lines 142-145: removed if it existed, then made
ResetFolder(b, existed) == "fresh"

\* a loop that builds every project, with or without cmake_args
SkipsBuildNever(args) == FALSE

\* if not cmake_args: the project is not built
SkipsBuild(args) == args = ""

\* the build folder is removed if it exists and made again, the script
\* changes into it; with no cmake_args the loop continues with the next
\* project, otherwise cmake is started
ResetBuild ==
    /\ pc = "reset"
    /\ \/ /\ \E existed \in BOOLEAN :
                build' = [build EXCEPT ![proj] = ResetFolder(build[proj], existed)]
          /\ IF SkipsBuild(project_paths[proj].cmake_args)
             THEN /\ LoopTo(proj + 1)
                  /\ UNCHANGED << invoked, nread >>
             ELSE /\ Run(proj, "cmake")
                  /\ pc' = "cmake"
                  /\ proj' = proj
          /\ UNCHANGED << errors_detected, raised >>
       \/ /\ Except
          /\ UNCHANGED << proj, build, invoked, nread >>
    /\ UNCHANGED << needs_update, needs_build, sync, drained >>
    /\ UNCHANGED env
    /\ UNCHANGED hist
    /\ UNCHANGED pack
    /\ UNCHANGED outs

\* the body of a classifying loop: output(line), and error(...) when the
\* line has an error signature of the stage
Classify(cmd, ln, errs) ==
    IF IsError(cmd, ln)
    THEN error(errs, ErrorText(ErrorPrefix(cmd), ln))
    ELSE errs

\* a fail-fast stage loop: after an error line the rest of the output and
\* the rest of the project are given up
StageReadFailFast(cmd) ==
    /\ pc = cmd
    /\ \E ln \in AllLines :
        /\ ReadLine(cmd, ln)
        /\ errors_detected' = Classify(cmd, ln, errors_detected)
        /\ IF IsError(cmd, ln)
           THEN LoopTo(proj + 1) /\ nread' = 0
           ELSE nread' = nread + 1 /\ UNCHANGED << pc, proj >>
    /\ UNCHANGED << needs_update, needs_build, build, sync,
                    invoked, drained, raised >>
    /\ UNCHANGED env
    /\ UNCHANGED pack
    /\ UNCHANGED outs

\* one line of a build stage (cmake, make, make install)
StageRead(cmd) ==
    /\ pc = cmd
    /\ \E ln \in AllLines :
        /\ ReadLine(cmd, ln)
        /\ nread' = nread + 1
        /\ errors_detected' = Classify(cmd, ln, errors_detected)
    /\ UNCHANGED << pc, proj, needs_update, needs_build, build, sync,
                    invoked, drained, raised >>
    /\ UNCHANGED env
    /\ UNCHANGED pack
    /\ UNCHANGED outs

\* the output of a build stage ends: the next stage is started, or after
\* make install the loop goes to the next project
StageEnd(cmd, next) ==
    /\ pc = cmd
    /\ drained' = drained \cup { << proj, cmd >> }
    /\ IF next = "loop"
       THEN /\ LoopTo(proj + 1)
            /\ nread' = 0
            /\ UNCHANGED invoked
       ELSE /\ Run(proj, next)
            /\ pc' = next
            /\ proj' = proj
    /\ UNCHANGED << needs_update, needs_build, errors_detected, build,
                    sync, raised >>
    /\ UNCHANGED env
    /\ UNCHANGED hist
    /\ UNCHANGED pack
    /\ UNCHANGED outs

CmakeRead == StageRead("cmake")
CmakeEnd == StageEnd("cmake", "make")
MakeRead == StageRead("make")
MakeEnd == StageEnd("make", "install")
InstallRead == StageRead("install")
InstallEnd == StageEnd("install", "loop")

\* a gate that no longer looks at errors_detected
GateOpenAlways(errs) == Len(errs) >= 0

\* if not errors_detected
GateOpen(errs) == errs = << >>

\* the packaging gate, reached when the project loop is exhausted
Gate ==
    /\ pc = "gate"
    /\ gate' = [reached |-> TRUE, errors |-> Len(errors_detected),
                entered |-> GateOpen(errors_detected)]
    /\ pc' = IF GateOpen(errors_detected) THEN "cleanup" ELSE "report"
    /\ UNCHANGED << proj, needs_update, needs_build, nread,
                    errors_detected, build, exe_dirs, app_image_success,
                    sync, invoked, drained, artifact, packSteps, raised >>
    /\ UNCHANGED env
    /\ UNCHANGED hist
    /\ UNCHANGED outs

\* a script that packages on every platform
PackagesAnywhere(plat) == TRUE

\* if platform.system() == "Linux": the one branch with a packaging routine
Packages(plat) == plat = "Linux"

\* the build folder of openshot-qt after lines 183-184: "removed" when it
\* was there and shutil.rmtree took it away, "absent" when there was none
CleanFolder(b, existed) == IF existed THEN "removed" ELSE "absent"

\* chdir to openshot-qt, the left over openshot_qt and build folders are
\* removed if they exist; on Linux the freeze command is started, the
\* Darwin and Windows branches pass
Cleanup ==
    /\ pc = "cleanup"
    /\ proj' = QtProject
    /\ \/ /\ \E dupe \in BOOLEAN, existed \in BOOLEAN :
                /\ build[QtProject] = "fresh" => existed
                /\ build' = [build EXCEPT ![QtProject] = CleanFolder(build[QtProject], existed)]
          /\ IF Packages(platform)
             THEN /\ Run(proj', "freeze")
                  /\ packSteps' = packSteps \o << "cleanup", "freeze" >>
                  /\ pc' = "freeze"
             ELSE /\ packSteps' = Append(packSteps, "cleanup")
                  /\ pc' = "report"
                  /\ UNCHANGED << invoked, nread >>
          /\ UNCHANGED << errors_detected, raised >>
       \/ /\ Except
          /\ UNCHANGED << build, invoked, nread, packSteps >>
    /\ UNCHANGED << needs_update, needs_build, exe_dirs,
                    app_image_success, sync, drained, gate, artifact >>
    /\ UNCHANGED env
    /\ UNCHANGED hist
    /\ UNCHANGED outs

\* one line of the freeze command
FreezeRead ==
    /\ pc = "freeze"
    /\ \E ln \in AllLines :
        /\ ReadLine("freeze", ln)
        /\ nread' = nread + 1
        /\ errors_detected' = Classify("freeze", ln, errors_detected)
    /\ UNCHANGED << pc, proj, needs_update, needs_build, build, sync,
                    invoked, drained, raised >>
    /\ UNCHANGED env
    /\ UNCHANGED pack
    /\ UNCHANGED outs

FreezeEnd ==
    /\ pc = "freeze"
    /\ drained' = drained \cup { << proj, "freeze" >> }
    /\ pc' = "listdir"
    /\ nread' = 0
    /\ UNCHANGED << proj, needs_update, needs_build,
                    errors_detected, build, sync, invoked, raised >>
    /\ UNCHANGED env
    /\ UNCHANGED hist
    /\ UNCHANGED pack
    /\ UNCHANGED outs

\* if len(exe_dirs) == 1
OneExeDir(n) == n = 1

\* exe_dirs = os.listdir(<project>/build): it raises when the freeze made
\* no build folder; the AppDir is made only for a single entry
ListDir ==
    /\ pc = "listdir"
    /\ \/ /\ \E n \in 0..MaxDirs :
                /\ exe_dirs' = n
                /\ pc' = IF OneExeDir(n) THEN "skeleton" ELSE "report"
          /\ build' = [build EXCEPT ![QtProject] = "frozen"]
          /\ UNCHANGED << errors_detected, raised >>
       \/ /\ Except
          /\ UNCHANGED << exe_dirs, build >>
    /\ UNCHANGED << proj, needs_update, needs_build, nread,
                    app_image_success, sync, invoked, drained, gate,
                    artifact, packSteps >>
    /\ UNCHANGED env
    /\ UNCHANGED hist
    /\ UNCHANGED outs

\* the AppDir folders, AppRun, .desktop, icons, mime files, the frozen app,
\* the wrapper and the execute permissions; then app_image_success = False
\* and AppImageAssistant is started
Skeleton ==
    /\ pc = "skeleton"
    /\ \/ /\ packSteps' = packSteps \o << "skeleton", "appimage" >>
          /\ app_image_success' = FALSE
          /\ Run(proj, "appimage")
          /\ pc' = "appimage"
          /\ UNCHANGED << errors_detected, raised >>
       \/ /\ Except
          /\ UNCHANGED << packSteps, app_image_success, invoked, nread >>
    /\ UNCHANGED << proj, needs_update, needs_build, build, exe_dirs,
                    sync, drained, gate, artifact >>
    /\ UNCHANGED env
    /\ UNCHANGED hist
    /\ UNCHANGED outs

\* one line of AppImageAssistant: the error test and the success test
AppImageRead ==
    /\ pc = "appimage"
    /\ \E ln \in AllLines :
        /\ ReadLine("appimage", ln)
        /\ nread' = nread + 1
        /\ errors_detected' = Classify("appimage", ln, errors_detected)
        /\ app_image_success' = (app_image_success \/ IsAppImageSuccess(ln))
    /\ UNCHANGED << pc, proj, needs_update, needs_build, build, exe_dirs,
                    sync, invoked, drained, gate, artifact, packSteps, raised >>
    /\ UNCHANGED env
    /\ UNCHANGED outs

AppImageEnd ==
    /\ pc = "appimage"
    /\ drained' = drained \cup { << proj, "appimage" >> }
    /\ pc' = "validate"
    /\ nread' = 0
    /\ UNCHANGED << proj, needs_update, needs_build,
                    errors_detected, build, sync, invoked, raised >>
    /\ UNCHANGED env
    /\ UNCHANGED hist
    /\ UNCHANGED pack
    /\ UNCHANGED outs

\* a validation that trusts the success marker alone
ValidateMarkerOnly(success, exists) ==
    IF success THEN "accept" ELSE "nomarker"

\* if app_image_success: if os.path.exists(app_image_path): ... else: ...
\* else: ...
ValidateOutcome(success, exists) ==
    IF success
    THEN IF exists THEN "accept" ELSE "missing"
    ELSE "nomarker"

\* was the AppImage creation successful
Validate ==
    /\ pc = "validate"
    /\ \E exists \in BOOLEAN :
        LET outcome == ValidateOutcome(app_image_success, exists) IN
        /\ artifact' = IF ~app_image_success THEN "unchecked"
                       ELSE IF exists THEN "present" ELSE "absent"
        /\ CASE outcome = "accept" ->
                  /\ pc' = "upload"
                  /\ UNCHANGED errors_detected
             [] outcome = "missing" ->
                  /\ pc' = "report"
                  /\ errors_detected' = error(errors_detected,
                         ErrorText("AppImageKit Error", <<"does not exist">>))
             [] outcome = "nomarker" ->
                  /\ pc' = "report"
                  /\ errors_detected' = error(errors_detected,
                         ErrorText("AppImageKit Error",
                                   <<"did not output 'completed successfully'">>))
    /\ UNCHANGED << proj, needs_update, needs_build, nread, build,
                    exe_dirs, app_image_success, sync, invoked, drained,
                    gate, packSteps, raised >>
    /\ UNCHANGED env
    /\ UNCHANGED hist
    /\ UNCHANGED outs

\* upload(app_image_path, bucket): nothing without an s3_connection,
\* otherwise open() and s3_connection.upload(), either of which may raise
Upload ==
    /\ pc = "upload"
    /\ \/ /\ ~s3_connection
          /\ uploads' = Append(uploads, "noop")
          /\ pc' = "notify"
          /\ UNCHANGED << errors_detected, raised >>
       \/ /\ s3_connection
          /\ uploads' = Append(uploads, "sent")
          /\ pc' = "notify"
          /\ UNCHANGED << errors_detected, raised >>
       \/ /\ s3_connection
          /\ uploads' = Append(uploads, "raised")
          /\ Except
    /\ UNCHANGED << proj, needs_update, needs_build, nread, build,
                    sync, invoked, drained, slacks, reports >>
    /\ UNCHANGED env
    /\ UNCHANGED hist
    /\ UNCHANGED pack

\* slack(message): printed; posted when there is a slack_object, and the
\* post may raise
SlackCall(kind, result) == Append(slacks, [kind |-> kind, result |-> result])

\* slack("<platform>: Successful build: <url>")
Notify ==
    /\ pc = "notify"
    /\ \/ /\ ~slack_object
          /\ slacks' = SlackCall("success", "noop")
          /\ pc' = "report"
          /\ UNCHANGED << errors_detected, raised >>
       \/ /\ slack_object
          /\ slacks' = SlackCall("success", "posted")
          /\ pc' = "report"
          /\ UNCHANGED << errors_detected, raised >>
       \/ /\ slack_object
          /\ slacks' = SlackCall("success", "raised")
          /\ Except
    /\ UNCHANGED << proj, needs_update, needs_build, nread, build,
                    sync, invoked, drained, uploads, reports >>
    /\ UNCHANGED env
    /\ UNCHANGED hist
    /\ UNCHANGED pack

\* if errors_detected: the failure list, else the success line
ReportKind(errs) == IF errs # << >> THEN "failure" ELSE "success"

\* report any errors detected: slack(<the list of errors>) or
\* output("Successful build server run!"); the script ends, with a
\* traceback when the post raises
Report ==
    /\ pc = "report"
    /\ reports' = Append(reports, ReportKind(errors_detected))
    /\ IF ReportKind(errors_detected) = "failure"
       THEN \/ /\ ~slack_object
               /\ slacks' = SlackCall("errors", "noop")
            \/ /\ slack_object
               /\ slacks' = SlackCall("errors", "posted")
            \/ /\ slack_object
               /\ slacks' = SlackCall("errors", "raised")
       ELSE UNCHANGED slacks
    /\ pc' = "done"
    /\ UNCHANGED << proj, needs_update, needs_build, nread,
                    errors_detected, build, sync, invoked, drained, uploads,
                    raised >>
    /\ UNCHANGED env
    /\ UNCHANGED hist
    /\ UNCHANGED pack

Next ==
    \/ Startup
    \/ Chdir
    \/ FetchRead
    \/ FetchEnd
    \/ PullRead
    \/ PullEnd
    \/ ResetBuild
    \/ CmakeRead
    \/ CmakeEnd
    \/ MakeRead
    \/ MakeEnd
    \/ InstallRead
    \/ InstallEnd
    \/ Gate
    \/ Cleanup
    \/ FreezeRead
    \/ FreezeEnd
    \/ ListDir
    \/ Skeleton
    \/ AppImageRead
    \/ AppImageEnd
    \/ Validate
    \/ Upload
    \/ Notify
    \/ Report

Spec == Init /\ [][Next]_vars

\* every external command ends and the script is the only thread, so a
\* step that can be taken is taken
FairSpec == Spec /\ WF_vars(Next)

TypeOK ==
    /\ platform \in Platforms
    /\ pc \in { "start", "chdir", "fetch", "pull", "reset", "cmake", "make",
                "install", "gate", "cleanup", "freeze", "listdir", "skeleton",
                "appimage", "validate", "upload", "notify", "report", "done" }
    /\ proj \in 0..NumProjects
    /\ nread \in 0..MaxLines
    /\ exe_dirs \in -1..MaxDirs

\* ------------------------------------------------------------------ claims
BuildStages == { "cmake", "make", "install" }
PackagingPcs == { "cleanup", "freeze", "listdir", "skeleton", "appimage",
                  "validate", "upload", "notify" }
PackagingCmds == { "freeze", "appimage" }

Started(p, cmd) == \E i \in 1..Len(invoked) : invoked[i] = << p, cmd >>
SlackCalled(kind) == \E i \in 1..Len(slacks) : slacks[i].kind = kind

\* upload() was called with an s3_connection, so a transfer was tried
UploadAttempted ==
    \E i \in 1..Len(uploads) : uploads[i] \in { "sent", "raised" }

\* some step of the packaging stage has been carried out
PackagingRan ==
    \/ pc \in PackagingPcs
    \/ packSteps # << >>
    \/ exe_dirs # -1
    \/ \E p \in Projects, c \in PackagingCmds : Started(p, c)
    \/ uploads # << >>
    \/ SlackCalled("success")

\* C1: the packaging stage is entered if and only if the project loop went
\* through all projects and errors_detected was empty when it ended; with
\* an error record present after the loop no packaging step is carried out.
C1_PackagingGate ==
    /\ gate.entered <=> (gate.reached /\ gate.errors = 0)
    /\ gate.reached => \A p \in Projects : sync[p] # "Unchecked"
    /\ PackagingRan => (gate.entered /\ gate.errors = 0)
    /\ (gate.reached /\ gate.errors > 0) => ~PackagingRan
    /\ (gate.reached /\ gate.errors = 0 /\ pc # "cleanup" /\ raised # "cleanup")
          => packSteps # << >>

\* C1 witness: the loop ended without errors, the gate was passed and the
\* freeze command was started
C1_Witness ==
    /\ gate.reached /\ gate.errors = 0
    /\ pc = "freeze"
    /\ sync[1] = "UpdateAvailable"

\* C5: no configure, compile or install command is started for a project
\* whose fetch check ended UpToDate, whatever the other projects' status.
C5_UpToDateNotBuilt ==
    \A p \in Projects :
        sync[p] = "UpToDate" => \A c \in BuildStages : ~Started(p, c)

\* C5 witness: project 1 is up to date and was not built while project 2
\* was built
C5_Witness ==
    /\ sync[1] = "UpToDate"
    /\ sync[2] = "UpdateAvailable"
    /\ Started(2, "install")
    /\ pc = "gate"

\* C8: the artifact is accepted (upload called, success message handed to
\* slack) only when the success marker was read from the image assembly
\* output and the artifact file exists; otherwise an error record is
\* appended and there is neither an upload nor a success message.
C8_ArtifactValidation ==
    LET seen == << QtProject, "appimage" >> \in markers
        validated == << QtProject, "appimage" >> \in drained /\ pc # "validate"
        accepted == seen /\ artifact = "present"
        last == errors_detected[Len(errors_detected)]
    IN  /\ (uploads # << >> \/ SlackCalled("success") \/ pc \in { "upload", "notify" })
              => accepted
        /\ (validated /\ ~accepted) =>
              /\ uploads = << >>
              /\ ~SlackCalled("success")
              /\ errors_detected # << >>
              /\ last.prefix = "AppImageKit Error"
              /\ last.arg = IF seen THEN <<"does not exist">>
                             ELSE <<"did not output 'completed successfully'">>
        /\ (validated /\ accepted) => pc \in { "upload", "notify", "report", "done" }
                                         /\ (pc # "upload" => uploads # << >>)

\* C8 witness: the marker was read but the file is absent, and the run went
\* on to the report with the error recorded
C8_Witness ==
    /\ << QtProject, "appimage" >> \in markers
    /\ artifact = "absent"
    /\ pc = "report"

\* every build command that is not the one running was read to its end
C4_Drained ==
    \A i \in 1..Len(invoked) :
        (invoked[i][2] \in BuildStages /\ ~(i = Len(invoked) /\ pc = invoked[i][2]))
            => invoked[i] \in drained

\* compile follows configure and install follows compile, errors or not
C4_StagesFollow ==
    \A p \in Projects :
        /\ << p, "cmake" >> \in drained => Started(p, "make")
        /\ << p, "make" >> \in drained => Started(p, "install")

\* when the loop has ended every project was checked, and every project
\* with an update and cmake_args went through its three stages
C4_LoopCompletes ==
    gate.reached =>
        \A p \in Projects :
            /\ sync[p] # "Unchecked"
            /\ (sync[p] = "UpdateAvailable" /\ project_paths[p].cmake_args # "")
                  => \A c \in BuildStages : << p, c >> \in drained

\* a line of a build stage with an error signature was read
BuildErrorRead == \E i \in 1..Len(origins) : origins[i].cmd \in BuildStages

\* C4: continue on error. After a line of cmake, make or make install with
\* an error signature the output is still read to its end, the remaining
\* stages of the project are run, the later projects are checked and
\* built; reading the line changes nothing but the appended record. A
\* project whose cmake was started always gets to the end of its make
\* install, and the loop goes on to the gate (where packaging is skipped)
\* unless os.chdir or the build folder reset of a later project raises.
C4_ContinueOnError ==
    /\ [](C4_Drained /\ C4_StagesFollow /\ C4_LoopCompletes)
    /\ [][(pc \in BuildStages /\ Len(origins') > Len(origins)) =>
            /\ pc' = pc /\ proj' = proj /\ invoked' = invoked
            /\ needs_update' = needs_update /\ needs_build' = needs_build
            /\ build' = build /\ sync' = sync
            /\ Len(errors_detected') = Len(errors_detected) + 1]_vars
    /\ [](gate.reached /\ BuildErrorRead => ~gate.entered)
    /\ \A p \in Projects : Started(p, "cmake") ~> (<< p, "install" >> \in drained)
    /\ (BuildErrorRead ~> (gate.reached \/ raised \in { "chdir", "reset" }))

\* C4 witness: project 1 had a configure error, was compiled and installed
\* all the same, and project 2 was built and project 3 checked after it
C4_Witness ==
    /\ pc = "gate"
    /\ origins # << >>
    /\ origins[1].proj = 1 /\ origins[1].cmd = "cmake"
    /\ << 1, "install" >> \in drained
    /\ << 2, "install" >> \in drained
    /\ sync[3] # "Unchecked"

\* C3: every run ends at the final report and emits exactly one report
\* there, the failure list when errors_detected is not empty and the
\* success line otherwise, whatever the commands print and wherever an
\* exception is raised in the try block.
C3_FinalReport ==
    /\ [](Len(reports) <= 1)
    /\ [](reports # << >> => pc = "done")
    /\ [](pc = "done" =>
            /\ reports = << IF errors_detected # << >> THEN "failure" ELSE "success" >>
            /\ (reports = << "failure" >> <=> SlackCalled("errors")))
    /\ <>(pc = "done")

\* C3 witness: an exception was raised while packaging and the run ended
\* with the failure list
C3_Witness ==
    /\ pc = "done"
    /\ raised = "skeleton"
    /\ reports = << "failure" >>

\* C2: when the freeze output or the image assembly output appended an
\* error record, upload() is not called in that run; whenever
\* errors_detected is not empty at the end of the run, upload() was never
\* called.
C2_LateErrorBlocksUpload ==
    /\ (\E i \in 1..Len(origins) : origins[i].cmd \in PackagingCmds)
          => ~UploadAttempted
    /\ (pc = "done" /\ errors_detected # << >>) => ~UploadAttempted

\* the records of the lines with an error signature are the first records
\* of errors_detected, one a line, in the order read, each made of the
\* stage's prefix and the line
C6_OneRecordPerLine ==
    /\ Len(errors_detected) >= Len(origins)
    /\ \A i \in 1..Len(origins) :
          errors_detected[i] = ErrorText(ErrorPrefix(origins[i].cmd), origins[i].line)
    /\ \A i \in (Len(origins) + 1)..Len(errors_detected) :
          errors_detected[i].arg \notin AllLines

\* the record of a build stage line tells which project was being built:
\* equal records come from the same project
C6_RecordNamesProject ==
    \A i, j \in 1..Len(origins) :
        (/\ origins[i].cmd \in BuildStages
         /\ origins[j].cmd \in BuildStages
         /\ errors_detected[i] = errors_detected[j])
            => origins[i].proj = origins[j].proj

\* C6: a line of cmake, make or make install with an error signature of
\* its stage appends exactly one record (also with several signatures in
\* the line), tagged with the stage and with the project being built; a
\* line without a signature appends none.
C6_RecordPerMatchingLine == C6_OneRecordPerLine /\ C6_RecordNamesProject

\* C7: when os.listdir finds no entry or more than one in the build folder
\* after the freeze, an error record is appended and the final report is
\* the failure list.
C7_AmbiguousOutputDir ==
    (exe_dirs # -1 /\ exe_dirs # 1) =>
        /\ pc \in { "report", "done" } => errors_detected # << >>
        /\ pc = "done" => reports = << "failure" >>

\* C9: an upload() that raises appends no record, the success message is
\* still handed to slack afterwards, and the final report stays the
\* success line.
C9_UploadFailureIgnored ==
    (\E i \in 1..Len(uploads) : uploads[i] = "raised") =>
        /\ raised # "upload"
        /\ Len(errors_detected) = Len(origins)
        /\ pc \in { "report", "done" } => SlackCalled("success")
        /\ (pc = "done" /\ origins = << >>) => reports = << "success" >>

\* C10: when a project's fetch check cannot run (os.chdir raises for a
\* missing working copy), only that project is skipped and the projects
\* after it are still processed.
C10_SyncErrorSkipsProject ==
    (pc = "done" /\ raised = "chdir")
        => \A p \in Projects : p > proj => sync[p] # "Unchecked"

\* a message of the kind was handed to slack() and post_message returned
Posted(kind) ==
    \E i \in 1..Len(slacks) :
        slacks[i].kind = kind /\ slacks[i].result = "posted"

\* C11: at most one message is posted to slack in a run: the success
\* message and the error list are never both posted.
C11_SingleNotification ==
    /\ ~(Posted("success") /\ Posted("errors"))
    /\ Cardinality({ i \in 1..Len(slacks) : slacks[i].result = "posted" }) <= 1

\* C13: a slack() call that raises, for the success message or for the
\* final error list, appends no record to errors_detected and leaves the
\* outcome of the run as it was.
C13_NotifyFailureIgnored ==
    [][ ( /\ Len(slacks') = Len(slacks) + 1
          /\ slacks'[Len(slacks')].result = "raised" )
        => /\ errors_detected' = errors_detected
           /\ raised' = raised ]_vars

\* C12: the credentials decide only whether upload() and slack() act. On
\* the same command output and file system results a run with credentials
\* takes the same steps and records the same errors as a run without
\* them: no record comes from upload() or slack(), and the success
\* slack() call follows every upload() call.
C12_CredentialIndependence ==
    /\ raised \notin { "upload", "notify" }
    /\ (pc \in { "report", "done" } /\ uploads # << >>)
          => SlackCalled("success")

\* C14: errors_detected is append-only: it starts empty and every step
\* leaves the records it holds in place, so its length never decreases
\* and once it is not empty it stays so.
C14_AppendOnly ==
    /\ errors_detected = << >>
    /\ [][ /\ Len(errors_detected') >= Len(errors_detected)
           /\ SubSeq(errors_detected', 1, Len(errors_detected))
                 = errors_detected ]_vars

\* two records were appended one after the other
C14_Witness ==
    /\ Len(errors_detected) = 2
    /\ errors_detected[1] # errors_detected[2]

LoopCmds == { "fetch", "pull" } \cup BuildStages
LoopPcs == { "chdir", "fetch", "pull", "reset" } \cup BuildStages

\* C15: the projects are taken in the order of project_paths, one at a
\* time: commands are started for projects in ascending order, none for
\* a project whose predecessors were not checked, none twice, and the
\* fetch of a project starts only when every command started for the
\* projects before it has been read to its end.
C15_ProjectOrder ==
    /\ \A i, j \in 1..Len(invoked) :
          (i < j /\ invoked[i][2] \in LoopCmds /\ invoked[j][2] \in LoopCmds)
             => /\ invoked[i][1] <= invoked[j][1]
                /\ invoked[i] # invoked[j]
    /\ \A p \in Projects :
          Started(p, "fetch") =>
             \A q \in 1..(p - 1) :
                /\ sync[q] # "Unchecked"
                /\ \A c \in LoopCmds \ { "fetch" } :
                      Started(q, c) => << q, c >> \in drained
    /\ pc \in LoopPcs =>
          \A i \in 1..Len(invoked) : invoked[i][1] <= proj

\* the loop is over, the first two projects were built and the third
\* was checked after them
C15_Witness ==
    /\ pc = "gate"
    /\ Started(1, "install")
    /\ Started(2, "install")
    /\ Started(3, "fetch")

\* C16: an exception raised inside the try block appends exactly one
\* "Unhandled exception" record and goes straight to the final report;
\* after it no command is started, no folder is touched, no project is
\* checked, nothing is uploaded and no success message is sent, and the
\* one step left is the final report, which is the failure list.
C16_UnhandledException ==
    /\ [][ (raised = "no" /\ raised' # "no")
           => /\ errors_detected' = Append(errors_detected,
                     ErrorText("Unhandled exception", << "traceback" >>))
              /\ pc' = "report"
              /\ reports' = reports ]_vars
    /\ [][ raised # "no"
           => /\ pc = "report"
              /\ pc' = "done"
              /\ reports' = << "failure" >>
              /\ errors_detected' = errors_detected
              /\ raised' = raised
              /\ invoked' = invoked
              /\ build' = build
              /\ sync' = sync
              /\ uploads' = uploads
              /\ packSteps' = packSteps
              /\ SlackCalled("success")' = SlackCalled("success") ]_vars

\* an exception came after an error record of a build stage and the run
\* ended with the failure list
C16_Witness ==
    /\ pc = "done"
    /\ raised # "no"
    /\ Len(errors_detected) = 2
    /\ reports = << "failure" >>

\* C17: the fetch check of a project ends as UpToDate exactly when a line
\* with "[up to date]" was read from the fetch output, and as
\* UpdateAvailable exactly when the output ended, empty or not, without
\* such a line; no line of the output is read after the marker line.
C17_SyncCheck ==
    \A p \in Projects :
        /\ sync[p] = "UpToDate" <=> << p, "fetch" >> \in markers
        /\ sync[p] = "UpdateAvailable" <=> << p, "fetch" >> \in drained
        /\ << p, "fetch" >> \in markers
              => /\ ~(pc = "fetch" /\ proj = p)
                 /\ << p, "fetch" >> \notin drained

\* one project was found up to date at the marker line, the next one had
\* an update because its fetch output ended without the marker
C17_Witness ==
    /\ sync[1] = "UpToDate"
    /\ << 1, "fetch" >> \in markers
    /\ sync[2] = "UpdateAvailable"
    /\ << 2, "fetch" >> \in drained

\* C18: when cmake, make or make install is started for a project, the
\* build folder of the project was removed, if there was one, and made
\* again in this run: no build command runs in a folder left over from a
\* run before.
C18_FreshBuildFolder ==
    \A p \in Projects :
        (\E c \in BuildStages : Started(p, c))
            => /\ sync[p] = "UpdateAvailable"
               /\ build[p] = "fresh"

\* all three build commands of the first project were started in its
\* new build folder
C18_Witness ==
    /\ Started(1, "cmake")
    /\ Started(1, "make")
    /\ Started(1, "install")
    /\ build[1] = "fresh"

\* C19: a project with an update and with empty cmake_args has its build
\* folder removed and made again, but cmake, make and make install are
\* not started for it and no build error is recorded for it; the loop
\* goes on with the next project, or ends when it was the last one.
C19_NoCmakeArgs ==
    /\ [](\A p \in Projects :
            project_paths[p].cmake_args = ""
               => /\ \A c \in BuildStages : ~Started(p, c)
                  /\ \A i \in 1..Len(origins) :
                        origins[i].proj = p
                           => origins[i].cmd \notin BuildStages)
    /\ [][ ( /\ pc = "reset"
             /\ project_paths[proj].cmake_args = ""
             /\ raised' = "no" )
           => /\ build'[proj] = "fresh"
              /\ invoked' = invoked
              /\ errors_detected' = errors_detected
              /\ IF proj < NumProjects
                 THEN pc' = "chdir" /\ proj' = proj + 1
                 ELSE pc' = "gate" ]_vars

\* the project without cmake_args had an update: it was pulled, its build
\* folder was made again and the loop went on
C19_Witness ==
    /\ pc = "gate"
    /\ project_paths[QtProject].cmake_args = ""
    /\ sync[QtProject] = "UpdateAvailable"
    /\ Started(QtProject, "pull")
    /\ build[QtProject] = "fresh"

\* C20: on Darwin and Windows passing the packaging gate is a no-op: no
\* folder is removed or made, no command is started, nothing is uploaded,
\* no message is sent and errors_detected stays as it was.
C20_GateNoOp ==
    [][ (platform # "Linux" /\ pc = "cleanup")
        => /\ \A p \in Projects :
                 build'[p] = build[p] \/ build'[p] = "absent"
           /\ invoked' = invoked
           /\ uploads' = uploads
           /\ slacks' = slacks
           /\ errors_detected' = errors_detected ]_vars

\* C20, amended: on Darwin and Windows the script, once past the gate,
\* only changes into the openshot-qt folder and removes its left over
\* openshot_qt and build folders; it makes no folder, starts no command,
\* lists no folder, tests no AppImage file, uploads nothing and sends no
\* success message, and errors_detected stays empty unless the clean up
\* raises, which appends the one "Unhandled exception" record.
C20_NoPackagingRoutine ==
    /\ [](platform # "Linux" =>
            /\ pc \notin PackagingPcs \ { "cleanup" }
            /\ \A i \in 1..Len(invoked) : invoked[i][2] \notin PackagingCmds
            /\ \A i \in 1..Len(packSteps) : packSteps[i] = "cleanup"
            /\ build[QtProject] # "frozen"
            /\ exe_dirs = -1
            /\ artifact = "unchecked"
            /\ uploads = << >>
            /\ ~SlackCalled("success")
            /\ gate.entered =>
                  errors_detected =
                     IF raised = "cleanup"
                     THEN << ErrorText("Unhandled exception", << "traceback" >>) >>
                     ELSE << >>)
    /\ [][ (platform # "Linux" /\ pc = "cleanup")
           => /\ pc' = "report"
              /\ \A p \in Projects \ { QtProject } : build'[p] = build[p]
              /\ build'[QtProject] \in { "removed", "absent", build[QtProject] }
              /\ invoked' = invoked
              /\ uploads' = uploads
              /\ slacks' = slacks ]_vars

\* a Darwin run went through the gate, the left over build folder was
\* removed and the run ended with the success line
C20_Witness ==
    /\ platform = "Darwin"
    /\ gate.entered
    /\ build[QtProject] = "removed"
    /\ pc = "done"
    /\ reports = << "success" >>

====
